---- MODULE Spec2Model ----
(***************************************************************************)
(* A model of the tlog client of filippo.io/torchwood (src/tlogclient.go): *)
(* Client.Entries, the iterator that fetches data tiles in batches,        *)
(* authenticates every entry against the tree and yields (index, entry)    *)
(* pairs, and Client.Err.                                                  *)
(*                                                                         *)
(* One Client is shared by two Entries calls, A and then B.  The tile      *)
(* source below the client (edge memory cache, permanent cache, fetcher)   *)
(* is the environment of the engine: a ReadTiles call returns an error or  *)
(* any bytes, authenticated or not.                                        *)
(*                                                                         *)
(* The tile sources are modelled each on its own, over the source below    *)
(* it: PermanentCache over its directory, edgeMemoryCache over its slots,  *)
(* and TileFetcher.ReadTiles over an HTTP server.  One specification of    *)
(* the edgeMemoryCache keeps the history of the descriptors it was given.  *)
(***************************************************************************)
EXTENDS Integers, Sequences, FiniteSets, TLC

\* ------------------------------------------------------------------ bounds

\* log2 of the tile width (8 in the repository; scaled down).
TileHeight == 1

\* Data tiles per ReadTiles batch (50 in Client.Entries; scaled down).
BatchCap == 2

\* Largest tree size.
MaxN == 7

\* ------------------------------------------------------- program constants

\* NewClient: c.timeout = 5 * time.Minute when no timeout is configured.
DefaultTimeout == 5

TileWidth == 2 ^ TileHeight

Iters == {"A", "B"}

Min(a, b) == IF a < b THEN a ELSE b

\* ------------------------------------------------------------------ errors

Nil == <<"nil", 0>>
Canceled == <<"context canceled", 0>>
DeadlineExceeded == <<"context deadline exceeded", 0>>
ErrReadTiles == <<"ReadTiles failed", 0>>
ErrReadHashes == <<"ReadHashes failed", 0>>
ErrEndOfTile(n) == <<"unexpected end of tile data for tile", n>>
ErrCut(i) == <<"failed to cut entry", i>>
\* (a slip: the tile's number for the entry's index)
ErrMismatchTile(i) == <<"hash mismatch for entry", i \div TileWidth>>
ErrMismatch(i) == <<"hash mismatch for entry", i>>
ErrLeftover(n) == <<"unexpected leftover data in tile", n>>

\* --------------------------------------------------- the log and its hashes

\* The entry the log holds at index i.
LogEntry(i) == <<"entry", i>>
\* Bytes that cut as one entry that is in no position of the log.
Bogus == <<"bogus", 0>>
\* Bytes the cut function rejects.
Malformed == <<"malformed", 0>>

\* tlog.RecordHash: injective in the entry.
RecordHash(e) == <<"hash", e>>

\* tlog.StoredHashIndex(0, n) = n + n/2 + n/4 + ...
RECURSIVE StoredHashIndex0(_)
StoredHashIndex0(n) == IF n = 0 THEN 0 ELSE n + StoredHashIndex0(n \div 2)

\* The leaf the stored hash index x belongs to.
LeafOfIndex(x) == CHOOSE n \in 0..x : StoredHashIndex0(n) = x

\* The authenticated hash stored at index x of the tree: the record hash of
\* the log's entry at that leaf.
StoredHash(x) == RecordHash(LogEntry(LeafOfIndex(x)))

\* TileHashReaderWithContext(ctx, tree, c.tr).ReadHashes(indexes) when it
\* succeeds: the authenticated hashes, in input order.
ReadHashes(indexes) == [k \in 1..Len(indexes) |-> StoredHash(indexes[k])]

\* The cut function: (entry, rh, rest, err) of a non-empty tile; of an empty
\* one, what the sumdb preset returns (an empty entry and no error).
Cut(data) ==
  IF data = <<>>
  THEN [entry |-> <<"empty", 0>>, rh |-> RecordHash(<<"empty", 0>>), rest |-> <<>>, err |-> FALSE]
  ELSE [entry |-> Head(data), rh |-> RecordHash(Head(data)), rest |-> Tail(data),
        err |-> Head(data) = Malformed]

\* ----------------------------------------------------------- the tile source

\* tlog.Tile{H, L, N, W}
Tile(l, n, w) == [H |-> TileHeight, L |-> l, N |-> n, W |-> w]

\* The bytes the log serves for a data tile: its W entries, concatenated.
GoodData(t) == [k \in 1..t.W |-> LogEntry(t.N * TileWidth + k - 1)]

\* What a tile source can answer for one data tile: the log's bytes, or bytes
\* with an entry replaced (by one of another position, by one of no position,
\* by bytes that do not cut), with every entry from some position on replaced,
\* with the entries of the next positions, with the last entry missing, or
\* with an entry too many.
TileAnswers(t) ==
  LET g == GoodData(t) IN
  {g}
  \cup {[g EXCEPT ![k] = x] : k \in 1..t.W, x \in {Bogus, Malformed}}
  \cup {[j \in 1..t.W |-> IF j >= k THEN Bogus ELSE g[j]] : k \in 1..t.W}
  \cup {[j \in 1..t.W |-> LogEntry(t.N * TileWidth + j)]}
  \cup {SubSeq(g, 1, t.W - 1)}
  \cup {Append(g, LogEntry(t.N * TileWidth + t.W))}

\* The answers to a batch: every tile as the log serves it, or one tile of the
\* batch answered otherwise.
BatchAnswers(tiles) ==
  {[k \in 1..Len(tiles) |-> IF k = bad THEN d ELSE GoodData(tiles[k])] :
     <<bad, d>> \in UNION {{<<k, x>> : x \in TileAnswers(tiles[k])} : k \in 1..Len(tiles)}}

\* The answer of a tile source that serves the log.
LogAnswers(tiles) == {[k \in 1..Len(tiles) |-> GoodData(tiles[k])]}

\* ------------------------------------------------------------ Client.Entries

VARIABLES
  treeN,   \* tree.N of the tree both calls are given
  err,     \* Client.err
  iters,   \* the state of the iterator each Entries call returned
  files,   \* the directory of a PermanentCache: what is at each path
  edgeT,   \* edgeMemoryCache.t: the two slots of each level
  saved,   \* history, where one is kept: the descriptors SaveTiles was given
           \* at each level, latest first
  last,    \* the last call a cache received, what it called below, its result
  fetch    \* a TileFetcher.ReadTiles call and the goroutines it started

vars == <<treeN, err, iters, files, edgeT, saved, last, fetch>>

\* The variables of the tile sources, which Client.Entries does not touch.
sources == <<files, edgeT, saved, last, fetch>>

\* An iterator before its Entries call.
NoIter ==
  [pc |-> "none", arg |-> 0, start |-> 0, parentDone |-> FALSE,
   ctx |-> [gen |-> 0, timeout |-> 0, err |-> Nil], timers |-> {},
   base |-> 0, top |-> 0, tiles |-> <<>>, tdata |-> <<>>, indexes |-> <<>>,
   hashes |-> <<>>, ti |-> 0, i |-> 0, data |-> <<>>,
   \* history: the pairs yielded, the batches read and saved, the inputs cut
   \* was given, the return statement taken, Err() when the iterator returned,
   \* the error this run stored in c.err
   yielded |-> <<>>, reads |-> <<>>, saves |-> <<>>, ncut |-> 0, cutEmpty |-> FALSE,
   ret |-> "", errAtEnd |-> Nil, ownErr |-> Nil]

Running == {"ReadTiles", "ReadHashes", "entry", "yield"}

\* context.WithTimeout(mainCtx, c.timeout): a fresh timer of the configured
\* duration, already done when the parent is.
WithTimeout(r) ==
  [gen |-> r.ctx.gen + 1, timeout |-> DefaultTimeout,
   err |-> IF r.parentDone THEN Canceled ELSE Nil]

\* ctx, cancel = context.WithTimeout(...): the new timer is live.
ArmTimer(r) ==
  LET c == WithTimeout(r) IN [r EXCEPT !.ctx = c, !.timers = @ \cup {c.gen}]

\* cancel(): the current timer is released.
Cancel(r) == [r EXCEPT !.timers = @ \ {r.ctx.gen}]

\* (a slip: the context is never consulted)
CtxErrNever(r) == Nil
\* ctx.Err()
CtxErr(r) == r.ctx.err

\* return: the deferred cancel() runs; the caller may now read Err().
Return(r, e, label) ==
  [r |-> [Cancel(r) EXCEPT !.pc = "done", !.ret = label, !.errAtEnd = e], e |-> e]

\* (a slip: a return that leaves c.err as it was)
FailSilently(r, e, label) == Return(r, err, label)
\* c.err = e; return
Fail(r, e, label) == Return([r EXCEPT !.ownErr = e], e, label)

\* base := start / TileWidth * TileWidth
BaseOf(start) == (start \div TileWidth) * TileWidth

\* (a slip: the trailing partial tile is always fetched)
TopAlwaysN(start, n) == n
\* top := tree.N / TileWidth * TileWidth; if top-base == 0 { top = tree.N }
TopOf(start, n) ==
  LET top == (n \div TileWidth) * TileWidth IN
  IF top - BaseOf(start) = 0 THEN n ELSE top

\* (a slip: the batch has no cap)
BatchFullNever(i) == FALSE
\* for i := 0; i < 50; i++: the end of the loop
BatchFull(i) == i >= BatchCap

\* for i := 0; i < 50; i++ { ... tiles = append(tiles, tlog.Tile{...}) }
RECURSIVE TilesFrom(_, _, _)
TilesFrom(i, base, top) ==
  LET tileStart == base + i * TileWidth
      tileEnd == Min(tileStart + TileWidth, top)
  IN IF BatchFull(i) \/ tileStart >= top THEN <<>>
     ELSE <<Tile(-1, tileStart \div TileWidth, tileEnd - tileStart)>>
          \o TilesFrom(i + 1, base, top)

\* indexes = append(indexes, tlog.StoredHashIndex(0, t.N*TileWidth+int64(i)))
RECURSIVE IndexesOf(_)
IndexesOf(tiles) ==
  IF tiles = <<>> THEN <<>>
  ELSE [k \in 1..Head(tiles).W |-> StoredHashIndex0(Head(tiles).N * TileWidth + k - 1)]
       \o IndexesOf(Tail(tiles))

\* (a slip: the hash of the next entry)
HashAtNext(hashes, i, base) == hashes[((i - base + 1) % Len(hashes)) + 1]
\* hashes[i-base]
HashAt(hashes, i, base) == hashes[i - base + 1]

\* The top of the loop, to the call of c.tr.ReadTiles.
LoopTop(r, e) ==
  IF CtxErr(r) # Nil THEN Fail(r, CtxErr(r), "ctx")
  ELSE LET base == BaseOf(r.start)
           top == TopOf(r.start, treeN)
           tiles == TilesFrom(0, base, top)
       IN IF Len(tiles) = 0 THEN Return(r, e, "empty")
          ELSE [r |-> [r EXCEPT !.pc = "ReadTiles", !.base = base, !.top = top,
                                !.tiles = tiles, !.reads = Append(@, tiles)],
                e |-> e]

\* (a slip: the loop is left after its first batch)
AtTopAlways(start, top) == TRUE
\* if start == top { return }
AtTop(start, top) == start = top

\* c.tr.SaveTiles(tiles, tdata)
SaveTiles(r) == [r EXCEPT !.saves = Append(@, [tiles |-> r.tiles, data |-> r.tdata])]

\* (a slip: what is left of the tile's data is not looked at)
LeftoverNever(data) == FALSE
\* if len(data) != 0
Leftover(data) == Len(data) # 0

\* The end of a tile's entries, of the batch and of the loop body.
TileEnd(r, e) ==
  LET t == r.tiles[r.ti]
      tileEnd == t.N * TileWidth + t.W
  IN IF Leftover(r.data) THEN Fail(r, ErrLeftover(t.N), "leftover")
     ELSE IF r.ti < Len(r.tiles)
     THEN [r |-> [r EXCEPT !.start = tileEnd, !.ti = @ + 1,
                           !.i = r.tiles[r.ti + 1].N * TileWidth,
                           !.data = r.tdata[r.ti + 1], !.pc = "entry"],
           e |-> e]
     ELSE LET s == SaveTiles([r EXCEPT !.start = tileEnd]) IN
          IF AtTop(s.start, s.top) THEN Return(s, e, "top") ELSE LoopTop(s, e)

\* i++ of the loop over a tile's entries.
NextEntry(r, e) ==
  LET t == r.tiles[r.ti] IN
  IF r.i + 1 < t.N * TileWidth + t.W
  THEN [r |-> [r EXCEPT !.i = @ + 1, !.pc = "entry"], e |-> e]
  ELSE TileEnd(r, e)

\* (a slip: the remaining data is not checked)
EndOfDataNever(data) == FALSE
\* if len(data) == 0
EndOfData(data) == Len(data) = 0

\* (a slip: the entries below start are yielded too)
SkipNever(i, start) == FALSE
\* if i < start { continue }
Skip(i, start) == i < start

\* One entry of a tile: from the check of the context to the call of yield.
Entry(r, e) ==
  LET t == r.tiles[r.ti] IN
  IF CtxErr(r) # Nil THEN Fail(r, CtxErr(r), "ctxEntry")
  ELSE IF EndOfData(r.data) THEN Fail(r, ErrEndOfTile(t.N), "short")
  ELSE LET c == Cut(r.data)
           r1 == [r EXCEPT !.ncut = @ + 1, !.cutEmpty = @ \/ r.data = <<>>]
       IN IF c.err THEN Fail(r1, ErrCut(r.i), "cut")
          ELSE LET r2 == [r1 EXCEPT !.data = c.rest] IN
               IF c.rh # HashAt(r.hashes, r.i, r.base)
               THEN Fail(r2, ErrMismatch(r.i), "mismatch")
               ELSE IF Skip(r.i, r.start) THEN NextEntry(r2, e)
               ELSE [r |-> [r2 EXCEPT !.pc = "yield",
                                      !.yielded = Append(@, <<r.i, c.entry>>)],
                     e |-> e]

\* (a slip: the timer is not restarted)
AcceptedNoRestart(r, e) == NextEntry(r, e)
\* yield returned true: cancel(); ctx, cancel = context.WithTimeout(...)
Accepted(r, e) == NextEntry(ArmTimer(Cancel(r)), e)

Set(id, res) ==
  /\ iters' = [iters EXCEPT ![id] = res.r]
  /\ err' = res.e
  /\ UNCHANGED <<treeN, sources>>

\* No tile source is in use.
NoSources ==
  /\ files = <<>>
  /\ edgeT = <<>>
  /\ saved = <<>>
  /\ last = <<>>
  /\ fetch = <<>>

Init ==
  /\ treeN \in 0..MaxN
  /\ err = Nil
  /\ iters = [id \in Iters |-> NoIter]
  /\ NoSources

\* it := c.Entries(ctx, tree, start), with 0 <= start <= tree.N: c.err = nil,
\* and the iterator is returned, not yet run.  B is the later call.
Entries(id, start) ==
  /\ iters[id].pc = "none"
  /\ id = "B" => iters["A"].pc # "none"
  /\ iters' = [iters EXCEPT ![id] = [NoIter EXCEPT !.pc = "created", !.arg = start,
                                                   !.start = start]]
  /\ err' = Nil
  /\ UNCHANGED <<treeN, sources>>

\* The iterator is run: the first timer is armed and the loop entered.
Begin(id) ==
  /\ iters[id].pc = "created"
  /\ Set(id, LoopTop(ArmTimer(iters[id]), err))

\* c.tr.ReadTiles returns an error (the context's, when the context is done).
ReadTilesFails(id) ==
  LET r == iters[id] IN
  /\ r.pc = "ReadTiles"
  /\ Set(id, Fail(r, IF CtxErr(r) # Nil THEN CtxErr(r) ELSE ErrReadTiles, "read"))

\* c.tr.ReadTiles returns data for the tiles, one of the answers the tile
\* source can give; ReadHashes is called.
ReadTilesReturns(id, answers) ==
  LET r == iters[id] IN
  /\ r.pc = "ReadTiles"
  /\ \E d \in answers :
       Set(id, [r |-> [r EXCEPT !.pc = "ReadHashes", !.tdata = d,
                                !.indexes = IndexesOf(r.tiles)],
                e |-> err])

\* ReadHashes returns an error (the context's, when the context is done).
ReadHashesFails(id) ==
  LET r == iters[id] IN
  /\ r.pc = "ReadHashes"
  /\ Set(id, Fail(r, IF CtxErr(r) # Nil THEN CtxErr(r) ELSE ErrReadHashes, "hashes"))

\* ReadHashes returns the authenticated hashes; the first tile is entered.
ReadHashesReturns(id) ==
  LET r == iters[id] IN
  /\ r.pc = "ReadHashes"
  /\ Set(id, [r |-> [r EXCEPT !.pc = "entry", !.hashes = ReadHashes(r.indexes),
                              !.ti = 1, !.i = r.tiles[1].N * TileWidth,
                              !.data = r.tdata[1]],
              e |-> err])

\* The next entry of the tile is cut, checked and skipped or handed to yield.
EntryStep(id) ==
  /\ iters[id].pc = "entry"
  /\ Set(id, Entry(iters[id], err))

\* The consumer accepts the entry.
YieldTrue(id) ==
  /\ iters[id].pc = "yield"
  /\ Set(id, Accepted(iters[id], err))

\* The consumer breaks out of the loop: if !yield(i, entry) { return }
YieldFalse(id) ==
  /\ iters[id].pc = "yield"
  /\ Set(id, Return(iters[id], err, "declined"))

\* The caller cancels the context it gave Entries.
CancelParent(id) ==
  LET r == iters[id] IN
  /\ r.pc \in Running \cup {"created"}
  /\ ~r.parentDone
  /\ iters' = [iters EXCEPT ![id] =
       [r EXCEPT !.parentDone = TRUE,
                 !.ctx.err = IF r.pc \in Running /\ @ = Nil THEN Canceled ELSE @]]
  /\ UNCHANGED <<treeN, err, sources>>

\* The timer of the current context expires.
TimerFires(id) ==
  LET r == iters[id] IN
  /\ r.pc \in Running
  /\ r.ctx.err = Nil
  /\ iters' = [iters EXCEPT ![id] = [r EXCEPT !.ctx.err = DeadlineExceeded]]
  /\ UNCHANGED <<treeN, err, sources>>

\* One Entries call, A, against any tile source, with cancellation and timeouts.
Next ==
  \/ \E start \in 0..treeN : Entries("A", start)
  \/ Begin("A")
  \/ ReadTilesFails("A")
  \/ ReadTilesReturns("A", BatchAnswers(iters["A"].tiles))
  \/ ReadHashesFails("A")
  \/ ReadHashesReturns("A")
  \/ EntryStep("A")
  \/ YieldTrue("A")
  \/ YieldFalse("A")
  \/ CancelParent("A")
  \/ TimerFires("A")

Spec == Init /\ [][Next]_vars

\* Two Entries calls on one Client, A and then B, their iterators run in any
\* order or interleaving, against a tile source that serves the log's bytes or
\* fails.
NextTwo ==
  \E id \in Iters :
    \/ \E start \in 0..treeN : Entries(id, start)
    \/ Begin(id)
    \/ ReadTilesFails(id)
    \/ ReadTilesReturns(id, LogAnswers(iters[id].tiles))
    \/ ReadHashesFails(id)
    \/ ReadHashesReturns(id)
    \/ EntryStep(id)
    \/ YieldTrue(id)
    \/ YieldFalse(id)

SpecTwo == Init /\ [][NextTwo]_vars

\* ------------------------------------------------- tile sources: requests

\* Longest list of descriptors given to a tile source in one call.
MaxReq == 2

\* The non-empty lists of at most MaxReq descriptors out of T.
Requests(T) == UNION {[1..n -> T] : n \in 1..MaxReq}

\* Tile contents a caller hands to SaveTiles.
Bytes == {<<"bytes", "x">>, <<"bytes", "y">>}

\* data[i] == nil: the position of a tile still to be fetched.
NilBytes == <<"nil bytes", 0>>

\* The bytes the source below a cache returns for a tile.
SourceBytes(t) == <<"source bytes", t>>

\* c.tr.ReadTiles(ctx, missing) when it succeeds: one entry per tile, in order.
SourceData(tiles) == [k \in 1..Len(tiles) |-> SourceBytes(tiles[k])]

ErrHeight(h) == <<"unexpected tile height", h>>
ErrIO == <<"read error", 0>>

\* No call in hand.
NoCall == [op |-> "none", tiles |-> <<>>, data |-> <<>>, err |-> Nil, inner |-> <<>>,
           stopped |-> FALSE, panic |-> FALSE]

\* The caller has taken the result of its call; it may call again.
CallReturns ==
  /\ last # NoCall
  /\ last' = NoCall
  /\ UNCHANGED <<treeN, err, iters, files, edgeT, saved, fetch>>

\* ------------------------------------------------------------ PermanentCache

\* The descriptors given to a PermanentCache: a full and a partial data tile,
\* two full hash tiles, and a tile of another height.
CacheTiles ==
  {Tile(-1, 0, TileWidth), Tile(-1, 0, 1), Tile(0, 0, TileWidth), Tile(0, 1, TileWidth),
   [Tile(0, 0, TileWidth) EXCEPT !.H = TileHeight + 1]}

\* c.tilePath(t): tile/<L>/<N>, with .p/<W> for a tile narrower than its
\* height allows; one path per descriptor.
TilePath(t) == <<"tile", t.H, t.L, t.N, IF t.W = 2 ^ t.H THEN 0 ELSE t.W>>

Paths == {TilePath(t) : t \in CacheTiles}

\* No file at a path; what a write that failed part-way left at a path.
Absent == <<"absent", 0>>
Truncated == <<"truncated", 0>>

\* (a slip: every file is taken as missing)
NotExistAlways(fs, path) == TRUE
\* errors.Is(err, os.ErrNotExist) of os.ReadFile(path)
NotExist(fs, path) == fs[path] = Absent

\* The loop of ReadTiles over the requested tiles; ioAt is the position where
\* os.ReadFile fails otherwise than with not-exist (0: nowhere).
RECURSIVE PermanentLookup(_, _, _, _)
PermanentLookup(tiles, k, ioAt, acc) ==
  IF k > Len(tiles) THEN acc
  ELSE LET t == tiles[k]
           path == TilePath(t)
       IN IF t.H # TileHeight THEN [acc EXCEPT !.err = ErrHeight(t.H)]
          ELSE IF ioAt # k /\ NotExist(files, path)
          THEN PermanentLookup(tiles, k + 1, ioAt,
                 [acc EXCEPT !.missing = Append(@, t), !.data = Append(@, NilBytes)])
          ELSE IF ioAt = k THEN [acc EXCEPT !.err = ErrIO]
          ELSE PermanentLookup(tiles, k + 1, ioAt,
                 [acc EXCEPT !.data = Append(@, files[path])])

\* for i := range data { if data[i] == nil { data[i] = missingData[0]; ... } }
RECURSIVE PermanentSplice(_, _)
PermanentSplice(data, missingData) ==
  IF data = <<>> THEN <<>>
  ELSE IF Head(data) = NilBytes
  THEN <<Head(missingData)>> \o PermanentSplice(Tail(data), Tail(missingData))
  ELSE <<Head(data)>> \o PermanentSplice(Tail(data), missingData)

\* PermanentCache.ReadTiles(ctx, tiles); the source below answers the missing
\* tiles when innerOk, and fails otherwise.
PermanentCacheReadTiles(tiles, ioAt, innerOk) ==
  LET l == PermanentLookup(tiles, 1, ioAt, [data |-> <<>>, missing |-> <<>>, err |-> Nil])
      call == [NoCall EXCEPT !.op = "ReadTiles", !.tiles = tiles]
      below == <<[op |-> "ReadTiles", tiles |-> l.missing]>>
  IN /\ last = NoCall
     /\ last' = IF l.err # Nil THEN [call EXCEPT !.err = l.err]
                ELSE IF Len(l.missing) = 0 THEN [call EXCEPT !.data = l.data]
                ELSE IF ~innerOk THEN [call EXCEPT !.err = ErrReadTiles, !.inner = below]
                ELSE [call EXCEPT !.data = PermanentSplice(l.data, SourceData(l.missing)),
                                  !.inner = below]
     /\ UNCHANGED <<treeN, err, iters, files, edgeT, saved, fetch>>

\* (a slip: partial tiles are stored too)
PartialNever(t) == FALSE
\* if t.W != TileWidth { continue }
Partial(t) == t.W # TileWidth

\* (a slip: the path is not looked up before it is written)
ExistsNever(fs, path) == FALSE
\* if _, err := os.Stat(path); err == nil { continue }
Exists(fs, path) == fs[path] # Absent

\* What the filesystem can do to one SaveTiles call: nothing, or at one
\* position fail os.MkdirAll, or fail os.WriteFile leaving no file or a file
\* with part of the bytes.
SaveFaults(n) ==
  {[at |-> 0, kind |-> "none"]}
  \cup {[at |-> k, kind |-> x] : k \in 1..n, x \in {"mkdir", "write", "torn"}}

\* The loop of SaveTiles over the tiles: the directory it leaves, and whether
\* it returned from inside the loop.
RECURSIVE PermanentStore(_, _, _, _, _)
PermanentStore(tiles, data, k, fault, fs) ==
  IF k > Len(tiles) THEN [files |-> fs, stopped |-> FALSE]
  ELSE LET t == tiles[k]
           path == TilePath(t)
       IN IF t.H # TileHeight THEN PermanentStore(tiles, data, k + 1, fault, fs)
          ELSE IF Partial(t) THEN PermanentStore(tiles, data, k + 1, fault, fs)
          ELSE IF Exists(fs, path) THEN PermanentStore(tiles, data, k + 1, fault, fs)
          ELSE IF fault.at = k /\ fault.kind = "mkdir" THEN [files |-> fs, stopped |-> TRUE]
          ELSE IF fault.at = k /\ fault.kind = "write"
          THEN PermanentStore(tiles, data, k + 1, fault, fs)
          ELSE IF fault.at = k /\ fault.kind = "torn"
          THEN PermanentStore(tiles, data, k + 1, fault, [fs EXCEPT ![path] = Truncated])
          ELSE PermanentStore(tiles, data, k + 1, fault, [fs EXCEPT ![path] = data[k]])

\* PermanentCache.SaveTiles(tiles, data), with c.tr.SaveTiles(tiles, data) at
\* its end.
PermanentCacheSaveTiles(tiles, data, fault) ==
  LET s == PermanentStore(tiles, data, 1, fault, files)
      call == [NoCall EXCEPT !.op = "SaveTiles", !.tiles = tiles, !.data = data]
  IN /\ last = NoCall
     /\ files' = s.files
     /\ last' = IF s.stopped THEN [call EXCEPT !.stopped = TRUE]
                ELSE [call EXCEPT !.inner = <<[op |-> "SaveTiles", tiles |-> tiles,
                                                data |-> data]>>]
     /\ UNCHANGED <<treeN, err, iters, edgeT, saved, fetch>>

\* NewPermanentCache(tr, dir) over an empty directory.
InitPermanent ==
  /\ treeN = 0
  /\ err = Nil
  /\ iters = [id \in Iters |-> NoIter]
  /\ files = [p \in Paths |-> Absent]
  /\ edgeT = <<>>
  /\ saved = <<>>
  /\ last = NoCall
  /\ fetch = <<>>

\* Any sequence of ReadTiles and SaveTiles calls on one PermanentCache.
NextPermanent ==
  \/ /\ last = NoCall
     /\ \E tiles \in Requests(CacheTiles) :
          \/ \E ioAt \in 0..Len(tiles), innerOk \in BOOLEAN :
               PermanentCacheReadTiles(tiles, ioAt, innerOk)
          \/ \E data \in [1..Len(tiles) -> Bytes], fault \in SaveFaults(Len(tiles)) :
               PermanentCacheSaveTiles(tiles, data, fault)
  \/ CallReturns

SpecPermanent == InitPermanent /\ [][NextPermanent]_vars

\* ----------------------------------------------------------- edgeMemoryCache

\* The descriptors given to an edgeMemoryCache: data tiles and hash tiles of
\* level 0, full and partial.
EdgeTiles ==
  {Tile(-1, 0, TileWidth), Tile(-1, 1, 1), Tile(-1, 1, TileWidth),
   Tile(0, 0, 1), Tile(0, 0, TileWidth)}

Levels == {t.L : t \in EdgeTiles}

\* tlog.Tile{} and tileWithData{}
ZeroTile == [H |-> 0, L |-> 0, N |-> 0, W |-> 0]
ZeroSlot == [Tile |-> ZeroTile, data |-> NilBytes]

\* A level c.t has no entry for.
NoEntry == <<>>

\* td := c.t[l]: the zero value when the map has no entry.
SlotsOf(m, l) == IF m[l] = NoEntry THEN <<ZeroSlot, ZeroSlot>> ELSE m[l]

\* (a slip: a slot answers for every tile of its level)
HitLevel(slot, t) == slot.Tile # ZeroTile /\ slot.Tile.L = t.L
\* td[0].Tile == t
Hit(slot, t) == slot.Tile = t

\* The loop of ReadTiles over the requested tiles.
RECURSIVE EdgeLookup(_, _, _)
EdgeLookup(tiles, k, acc) ==
  IF k > Len(tiles) THEN acc
  ELSE LET t == tiles[k]
           td == SlotsOf(edgeT, t.L)
       IN IF Hit(td[1], t)
          THEN EdgeLookup(tiles, k + 1, [acc EXCEPT !.data = Append(@, td[1].data)])
          ELSE IF Hit(td[2], t)
          THEN EdgeLookup(tiles, k + 1, [acc EXCEPT !.data = Append(@, td[2].data)])
          ELSE EdgeLookup(tiles, k + 1,
                 [acc EXCEPT !.missing = Append(@, t), !.data = Append(@, NilBytes)])

\* for i := range data { if data[i] == nil { data[i] = missingData[0]; ... } }
RECURSIVE EdgeSplice(_, _)
EdgeSplice(data, missingData) ==
  IF data = <<>> THEN <<>>
  ELSE IF Head(data) = NilBytes
  THEN <<Head(missingData)>> \o EdgeSplice(Tail(data), Tail(missingData))
  ELSE <<Head(data)>> \o EdgeSplice(Tail(data), missingData)

\* edgeMemoryCache.ReadTiles(ctx, tiles); the source below answers the missing
\* tiles when innerOk, and fails otherwise.
EdgeReadTiles(tiles, innerOk) ==
  LET l == EdgeLookup(tiles, 1, [data |-> <<>>, missing |-> <<>>])
      call == [NoCall EXCEPT !.op = "ReadTiles", !.tiles = tiles]
      below == <<[op |-> "ReadTiles", tiles |-> l.missing]>>
  IN /\ last = NoCall
     /\ last' = IF Len(l.missing) = 0 THEN [call EXCEPT !.data = l.data]
                ELSE IF ~innerOk THEN [call EXCEPT !.err = ErrReadTiles, !.inner = below]
                ELSE [call EXCEPT !.data = EdgeSplice(l.data, SourceData(l.missing)),
                                  !.inner = below]
     /\ UNCHANGED <<treeN, err, iters, files, edgeT, saved, fetch>>

\* (a slip: only the first slot is looked at)
HeldFirst(td, t) == td[1].Tile = t
\* td[0].Tile == t || td[1].Tile == t
Held(td, t) == td[1].Tile = t \/ td[2].Tile = t

\* The first loop of SaveTiles: the tiles, with their data, that no slot holds.
RECURSIVE EdgeUnsaved(_, _, _)
EdgeUnsaved(tiles, data, k) ==
  IF k > Len(tiles) THEN [tiles |-> <<>>, data |-> <<>>]
  ELSE LET rest == EdgeUnsaved(tiles, data, k + 1) IN
       IF Held(SlotsOf(edgeT, tiles[k].L), tiles[k]) THEN rest
       ELSE [tiles |-> <<tiles[k]>> \o rest.tiles, data |-> <<data[k]>> \o rest.data]

\* tileLess(a, b) panics.
tileLessPanics(a, b) == a # ZeroTile /\ b # ZeroTile /\ a.L # b.L

\* (a slip: the comparison of two descriptors is the other way round)
tileMore(a, b) ==
  IF a = ZeroTile THEN TRUE
  ELSE IF b = ZeroTile THEN FALSE
  ELSE b.N < a.N \/ (b.N = a.N /\ b.W < a.W)

\* tileLess(a, b)
tileLess(a, b) ==
  IF a = ZeroTile THEN TRUE
  ELSE IF b = ZeroTile THEN FALSE
  ELSE a.N < b.N \/ (a.N = b.N /\ a.W < b.W)

\* (a slip: the slot is not compared with the other slot)
OlderThanNew(slot, t, other) == tileLess(slot, t)
\* tileLess(td[0].Tile, t) && tileLess(td[0].Tile, td[1].Tile)
Older(slot, t, other) == tileLess(slot, t) /\ tileLess(slot, other)

\* The switch of the second loop of SaveTiles for one tile: the entry of the
\* tile's level after it, and whether a comparison panicked.
SaveOne(m, t, d) ==
  LET td == SlotsOf(m, t.L)
      new == [Tile |-> t, data |-> d]
  IN IF m[t.L] = NoEntry THEN [td |-> <<new, ZeroSlot>>, panic |-> FALSE]
     ELSE IF Held(td, t) THEN [td |-> td, panic |-> FALSE]
     ELSE IF tileLessPanics(td[1].Tile, t) \/ tileLessPanics(td[1].Tile, td[2].Tile)
              \/ tileLessPanics(td[2].Tile, t)
     THEN [td |-> td, panic |-> TRUE]
     ELSE IF Older(td[1].Tile, t, td[2].Tile)
     THEN [td |-> <<new, td[2]>>, panic |-> FALSE]
     ELSE IF Older(td[2].Tile, t, td[1].Tile)
     THEN [td |-> <<td[1], new>>, panic |-> FALSE]
     ELSE [td |-> td, panic |-> FALSE]

\* The second loop of SaveTiles.
RECURSIVE EdgeStore(_, _, _, _)
EdgeStore(tiles, data, k, m) ==
  IF k > Len(tiles) THEN [t |-> m, panic |-> FALSE]
  ELSE LET one == SaveOne(m, tiles[k], data[k]) IN
       IF one.panic THEN [t |-> m, panic |-> TRUE]
       ELSE EdgeStore(tiles, data, k + 1, [m EXCEPT ![tiles[k].L] = one.td])

\* No history is kept.
NoHistory == <<>>

\* The history after SaveTiles was given tiles[k..]: each descriptor goes to
\* the front of its level's list, which holds every descriptor once.
RECURSIVE Note(_, _, _)
Note(h, tiles, k) ==
  IF k > Len(tiles) THEN h
  ELSE LET t == tiles[k] IN
       Note([h EXCEPT ![t.L] = <<t>> \o SelectSeq(@, LAMBDA x : x # t)], tiles, k + 1)

\* edgeMemoryCache.SaveTiles(tiles, data)
EdgeSaveTiles(tiles, data) ==
  LET u == EdgeUnsaved(tiles, data, 1)
      s == EdgeStore(tiles, data, 1, edgeT)
  IN /\ last = NoCall
     /\ edgeT' = s.t
     /\ saved' = IF saved = NoHistory THEN saved ELSE Note(saved, tiles, 1)
     /\ last' = [NoCall EXCEPT !.op = "SaveTiles", !.tiles = tiles, !.data = data,
                               !.panic = s.panic,
                               !.inner = <<[op |-> "SaveTiles", tiles |-> u.tiles,
                                            data |-> u.data]>>]
     /\ UNCHANGED <<treeN, err, iters, files, fetch>>

\* &edgeMemoryCache{tr: tr, t: make(map[int][2]tileWithData)}
InitEdge ==
  /\ treeN = 0
  /\ err = Nil
  /\ iters = [id \in Iters |-> NoIter]
  /\ files = <<>>
  /\ edgeT = [l \in Levels |-> NoEntry]
  /\ saved = NoHistory
  /\ last = NoCall
  /\ fetch = <<>>

\* Any sequence of ReadTiles and SaveTiles calls on one edgeMemoryCache.
NextEdge ==
  \/ /\ last = NoCall
     /\ \E tiles \in Requests(EdgeTiles) :
          \/ \E innerOk \in BOOLEAN : EdgeReadTiles(tiles, innerOk)
          \/ \E data \in [1..Len(tiles) -> Bytes] : EdgeSaveTiles(tiles, data)
  \/ CallReturns

SpecEdge == InitEdge /\ [][NextEdge]_vars

\* An empty edgeMemoryCache whose SaveTiles calls are kept in the history.
InitEdgeSaves ==
  /\ treeN = 0
  /\ err = Nil
  /\ iters = [id \in Iters |-> NoIter]
  /\ files = <<>>
  /\ edgeT = [l \in Levels |-> NoEntry]
  /\ saved = [l \in Levels |-> <<>>]
  /\ last = NoCall
  /\ fetch = <<>>

\* Any sequence of SaveTiles calls on one edgeMemoryCache, each descriptor
\* with the bytes of its tile.
NextEdgeSaves ==
  \/ /\ last = NoCall
     /\ \E tiles \in Requests(EdgeTiles) : EdgeSaveTiles(tiles, SourceData(tiles))
  \/ CallReturns

SpecEdgeSaves == InitEdgeSaves /\ [][NextEdgeSaves]_vars

\* --------------------------------------------------------------- TileFetcher

\* for j := range 5
MaxAttempts == 5

\* math.Pow(5, float64(j-1))
BackoffBase == 5

\* http.StatusOK, http.StatusTooManyRequests
StatusOK == 200
StatusTooManyRequests == 429

\* The lists of descriptors given to a TileFetcher: consecutive data tiles,
\* any of them of another height.
FetchRequests ==
  UNION {{[k \in 1..n |-> [Tile(-1, k - 1, TileWidth) EXCEPT
                             !.H = IF k \in bad THEN TileHeight + 1 ELSE TileHeight]] :
            bad \in SUBSET (1..n)} : n \in 1..MaxReq}

\* time.Time{} and the instant x seconds from now (before now when x < 0).
ZeroTime == [zero |-> TRUE, at |-> 0]
At(x) == [zero |-> FALSE, at |-> x]

\* Retry-After header values: absent, a number of seconds, an HTTP-date (as
\* seconds from now), anything else.
NoHeader == [kind |-> "none", v |-> 0]
Headers ==
  {NoHeader, [kind |-> "seconds", v |-> 3], [kind |-> "date", v |-> -7],
   [kind |-> "garbage", v |-> 0]}

\* parseRetryAfter(header)
parseRetryAfter(header) ==
  IF header.kind = "none" THEN ZeroTime
  ELSE IF header.kind = "seconds" THEN At(header.v)
  ELSE IF header.kind = "date" THEN At(header.v)
  ELSE ZeroTime

\* What f.hc.Do(req) and io.ReadAll(resp.Body) can come to: no response (a
\* network error), or a status code, a Retry-After header and a body that
\* reads or fails to.
NetErr == [code |-> 0, header |-> NoHeader, body |-> FALSE]
Responses ==
  {NetErr}
  \cup {[code |-> StatusTooManyRequests, header |-> h, body |-> TRUE] : h \in Headers}
  \cup {[code |-> 503, header |-> [kind |-> "seconds", v |-> 3], body |-> TRUE]}
  \cup {[code |-> 404, header |-> NoHeader, body |-> TRUE]}
  \cup {[code |-> StatusOK, header |-> NoHeader, body |-> b] : b \in BOOLEAN}

ErrStatus(code) == <<"unexpected status code", code>>
ErrAttempts == <<"all attempts failed", 0>>

\* A goroutine of the errgroup before errGroup.Go starts it.
NoGoroutine ==
  [pc |-> "none", j |-> 0, retryAfter |-> ZeroTime, resp |-> NetErr, pause |-> 0,
   res |-> Nil]

\* A ReadTiles call: its tiles, the position of its loop, what it returned,
\* the errgroup's context and first error, and its goroutines.
FetchCall(tiles) ==
  [tiles |-> tiles, pos |-> 1, returned |-> FALSE, ret |-> Nil, ctxDone |-> FALSE,
   groupErr |-> Nil, g |-> [k \in 1..Len(tiles) |-> NoGoroutine]]

\* (a slip: only 429 is retried)
RetriableOnly429(code) == code = StatusTooManyRequests
\* case resp.StatusCode == http.StatusTooManyRequests || resp.StatusCode >= 500
Retriable(code) == code = StatusTooManyRequests \/ code >= 500

\* math.Pow
Pow(b, n) == b ^ n

\* (a slip: the Retry-After instant is kept for later sleeps)
KeepRetryAfter(t) == t
\* retryAfter = time.Time{}
ResetRetryAfter(t) == ZeroTime

\* The top of the retry loop for j > 0, to the select: the pause, and
\* retryAfter once used.
Backoff(g) ==
  IF g.retryAfter.zero
  THEN [g EXCEPT !.pause = Pow(BackoffBase, g.j - 1), !.pc = "sleep"]
  ELSE [g EXCEPT !.pause = g.retryAfter.at, !.retryAfter = ResetRetryAfter(@),
                 !.pc = "sleep"]

\* continue: the next round of the loop, or the return after it.
Continue(g) ==
  IF g.j < MaxAttempts THEN Backoff(g)
  ELSE [g EXCEPT !.pc = "done", !.res = ErrAttempts]

\* One round of the loop from f.hc.Do(req) on, given what the request came to.
Round(g, resp) ==
  LET g1 == [g EXCEPT !.j = @ + 1, !.resp = resp] IN
  IF resp = NetErr THEN Continue(g1)
  ELSE IF Retriable(resp.code)
  THEN Continue([g1 EXCEPT !.retryAfter = parseRetryAfter(resp.header)])
  ELSE IF resp.code # StatusOK THEN [g1 EXCEPT !.pc = "done", !.res = ErrStatus(resp.code)]
  ELSE IF ~resp.body THEN Continue(g1)
  ELSE [g1 EXCEPT !.pc = "done", !.res = Nil]

\* A goroutine's step: the errgroup keeps the first error a goroutine returns
\* and cancels the context then.
Go(k, g) ==
  /\ fetch' = [fetch EXCEPT
       !.g[k] = g,
       !.groupErr = IF g.pc = "done" /\ g.res # Nil /\ @ = Nil THEN g.res ELSE @,
       !.ctxDone = @ \/ (g.pc = "done" /\ g.res # Nil)]
  /\ UNCHANGED <<treeN, err, iters, files, edgeT, saved, last>>

\* if t.H != TileHeight
WrongHeight(t) == t.H # TileHeight

\* The loop of ReadTiles at a descriptor of another height: return nil, err.
FetchRejects ==
  /\ ~fetch.returned /\ fetch.pos <= Len(fetch.tiles)
  /\ WrongHeight(fetch.tiles[fetch.pos])
  /\ fetch' = [fetch EXCEPT !.returned = TRUE,
                            !.ret = ErrHeight(fetch.tiles[fetch.pos].H)]
  /\ UNCHANGED <<treeN, err, iters, files, edgeT, saved, last>>

\* errGroup.Go(func() error { ... }): the goroutine of the descriptor starts.
FetchLaunches ==
  /\ ~fetch.returned /\ fetch.pos <= Len(fetch.tiles)
  /\ ~WrongHeight(fetch.tiles[fetch.pos])
  /\ fetch' = [fetch EXCEPT !.pos = @ + 1, !.g[fetch.pos].pc = "attempt"]
  /\ UNCHANGED <<treeN, err, iters, files, edgeT, saved, last>>

\* return data, errGroup.Wait(): every goroutine has returned.
FetchWaitReturns ==
  /\ ~fetch.returned /\ fetch.pos > Len(fetch.tiles)
  /\ \A k \in 1..Len(fetch.tiles) : fetch.g[k].pc = "done"
  /\ fetch' = [fetch EXCEPT !.returned = TRUE, !.ret = fetch.groupErr, !.ctxDone = TRUE]
  /\ UNCHANGED <<treeN, err, iters, files, edgeT, saved, last>>

\* The first round of the loop: f.hc.Do(req) and what follows it; under a
\* done context Do returns an error.
Attempt(k, resp) ==
  /\ fetch.g[k].pc = "attempt"
  /\ fetch.ctxDone => resp = NetErr
  /\ Go(k, Round(fetch.g[k], resp))

\* case <-time.After(pause): the pause is over (it may be at once when it is
\* not positive) and the next round runs.
SleepEnds(k, resp) ==
  /\ fetch.g[k].pc = "sleep"
  /\ ~fetch.ctxDone \/ fetch.g[k].pause <= 0
  /\ fetch.ctxDone => resp = NetErr
  /\ Go(k, Round(fetch.g[k], resp))

\* case <-ctx.Done(): return ctx.Err()
SleepCancelled(k) ==
  /\ fetch.g[k].pc = "sleep"
  /\ fetch.ctxDone
  /\ Go(k, [fetch.g[k] EXCEPT !.pc = "done", !.res = Canceled])

\* The caller's context is cancelled.
FetchCancelled ==
  /\ ~fetch.ctxDone
  /\ fetch' = [fetch EXCEPT !.ctxDone = TRUE]
  /\ UNCHANGED <<treeN, err, iters, files, edgeT, saved, last>>

\* f.ReadTiles(ctx, tiles) is called.
InitFetch ==
  /\ treeN = 0
  /\ err = Nil
  /\ iters = [id \in Iters |-> NoIter]
  /\ files = <<>>
  /\ edgeT = <<>>
  /\ saved = <<>>
  /\ last = <<>>
  /\ fetch \in {FetchCall(tiles) : tiles \in FetchRequests}

NextFetch ==
  \/ FetchRejects
  \/ FetchLaunches
  \/ FetchWaitReturns
  \/ FetchCancelled
  \/ \E k \in 1..Len(fetch.tiles) :
       \/ \E resp \in Responses : Attempt(k, resp)
       \/ \E resp \in Responses : SleepEnds(k, resp)
       \/ SleepCancelled(k)

SpecFetch == InitFetch /\ [][NextFetch]_vars

\* ------------------------------------------------------------------ claims

\* The indices of the pairs an iterator yielded, in order.
YieldedIdx(r) == [k \in 1..Len(r.yielded) |-> r.yielded[k][1]]

\* The sequence a, a+1, ..., b-1.
Range(a, b) == [k \in 1..(b - a) |-> a + k - 1]

\* Where a run from start is to stop: the last full-tile boundary, or the tree
\* size when start lies in the trailing partial tile.
EmitEnd(start, n) ==
  LET full == (n \div TileWidth) * TileWidth IN IF start < full THEN full ELSE n

\* The leaf hash the hash reader returns for entry i of the tree.
AuthenticatedLeafHash(i) == StoredHash(StoredHashIndex0(i))

\* The return statements of Entries that follow a failure.
FailRets == {"ctx", "read", "hashes", "ctxEntry", "short", "cut", "mismatch", "leftover"}

\* The run returned from the loop with nothing left to fetch.
Completed(r) == r.pc = "done" /\ r.ret \in {"top", "empty"}

\* C1: every pair (i, entry) an iterator yields has the record hash of entry
\* equal to the authenticated leaf hash of index i, whatever bytes the tile
\* source answered.
C1_Authentication ==
  \A id \in Iters : \A k \in 1..Len(iters[id].yielded) :
    LET p == iters[id].yielded[k] IN
    Cut(<<p[2]>>).rh = AuthenticatedLeafHash(p[1])

\* Entries were yielded from a start in the middle of a tile, and then the tile
\* source answered a batch with bytes that did not authenticate.
C1_Witness ==
  LET r == iters["A"] IN
  /\ r.pc = "done" /\ r.ret = "mismatch"
  /\ r.arg % TileWidth # 0
  /\ Len(r.yielded) >= 2

\* The tile source served the log's bytes for the batch in hand, no read
\* failed, the context is not done and the consumer declined nothing.
FaultFree(r) ==
  /\ r.ret \notin {"read", "hashes", "declined"}
  /\ r.ctx.err = Nil /\ ~r.parentDone
  /\ r.tdata \in LogAnswers(r.tiles) \cup {<<>>}

\* C2: a run in which nothing fails and the consumer accepts every entry ends
\* by the loop's own return and has yielded exactly start, start+1, ...,
\* emitEnd-1, each once and in ascending order.
C2_ExactRange ==
  \A id \in Iters :
    LET r == iters[id] IN
    (r.pc = "done" /\ FaultFree(r)) =>
      /\ Completed(r)
      /\ YieldedIdx(r) = Range(r.arg, EmitEnd(r.arg, treeN))

\* A run from the middle of a tile that took more than one batch.
C2_Witness ==
  LET r == iters["A"] IN
  /\ r.pc = "done" /\ FaultFree(r)
  /\ r.arg % TileWidth # 0
  /\ Len(r.reads) >= 2
  /\ Len(r.yielded) > BatchCap * TileWidth - TileWidth

\* The pairs of a sequence of yielded pairs at indices s and above.
FromIndex(pairs, s) == LET AtLeast(p) == p[1] >= s IN SelectSeq(pairs, AtLeast)

\* Both calls ran to the loop's own return, and B started at a split point of
\* the range [start, emitEnd) that A emitted, both ends included.
Resumed(a, b) ==
  /\ Completed(a) /\ Completed(b)
  /\ b.arg \in a.arg..(a.arg + Len(a.yielded))

\* C3 as stated: for every split point s of [start, emitEnd], both ends
\* included, Entries(tree, s) emits exactly the pairs the first call emitted
\* at indices >= s.
C3_ResumeAnySplit ==
  LET a == iters["A"]
      b == iters["B"]
  IN Resumed(a, b) => b.yielded = FromIndex(a.yielded, b.arg)

\* C3 as amended: the same for every split point but s = emitEnd < N, where the
\* first call stopped at the last full-tile boundary and the resumed call
\* emits the trailing partial tile.
C3_ResumeSplit ==
  LET a == iters["A"]
      b == iters["B"]
      emitEnd == a.arg + Len(a.yielded)
  IN (Resumed(a, b) /\ ~(b.arg = emitEnd /\ emitEnd < treeN)) =>
       b.yielded = FromIndex(a.yielded, b.arg)

\* The first call ran over more than one tile and the second resumed from the
\* middle of a tile, strictly inside the range.
C3_Witness ==
  LET a == iters["A"]
      b == iters["B"]
  IN /\ Resumed(a, b)
     /\ b.arg > a.arg /\ b.arg % TileWidth # 0
     /\ Len(a.yielded) > TileWidth
     /\ Len(b.yielded) >= 1

\* C4: a run that returns after a failure has Err() non-nil, has yielded
\* nothing at or above the entry that failed, and has not passed the failing
\* batch to SaveTiles; a batch whose bytes are not the log's is never saved.
C4_FailureEnds ==
  \A id \in Iters :
    LET r == iters[id] IN
    /\ (r.pc = "done" /\ r.ret \in FailRets) =>
         /\ r.errAtEnd # Nil
         /\ err # Nil
         /\ Len(r.saves) = Len(r.reads) - (IF r.ret = "ctx" THEN 0 ELSE 1)
         /\ r.ret \in {"ctxEntry", "short", "cut", "mismatch"} =>
              \A k \in 1..Len(r.yielded) : r.yielded[k][1] < r.i
    /\ \A k \in 1..Len(r.saves) :
         /\ r.saves[k].tiles = r.reads[k]
         /\ r.saves[k].data \in LogAnswers(r.reads[k])
    /\ (r.tiles # <<>> /\ r.tdata # <<>> /\ r.tdata \notin LogAnswers(r.tiles)) =>
         /\ Len(r.saves) < Len(r.reads)
         /\ r.pc = "done" => r.ret \in FailRets \cup {"declined"}

\* A second batch failed its hash check after the first was yielded and saved.
C4_Witness ==
  LET r == iters["A"] IN
  /\ r.pc = "done" /\ r.ret = "mismatch"
  /\ Len(r.reads) = 2 /\ Len(r.saves) = 1
  /\ Len(r.yielded) > BatchCap * TileWidth - TileWidth

\* The bytes the tile source answered where entry i of the batch in hand is
\* expected cut to a record hash other than the authenticated one.
Mismatched(r, i) ==
  LET k == ((i - r.base) \div TileWidth) + 1
      j == ((i - r.base) % TileWidth) + 1
  IN /\ j <= Len(r.tdata[k])
     /\ ~Cut(<<r.tdata[k][j]>>).err
     /\ Cut(<<r.tdata[k][j]>>).rh # AuthenticatedLeafHash(i)

\* The indices of the entries of the batch in hand.
BatchIndices(r) == r.base..(r.base + Len(r.indexes) - 1)

\* The first index of the batch in hand whose record hash does not match.
FirstMismatch(r) ==
  CHOOSE i \in BatchIndices(r) :
    Mismatched(r, i) /\ \A j \in BatchIndices(r) : j < i => ~Mismatched(r, j)

Max(a, b) == IF a > b THEN a ELSE b

\* C5 as stated: a record hash mismatch ends the run with the error of the
\* first mismatched index and no entry of that batch has been emitted.
C5_NoEntryOfBatch ==
  \A id \in Iters :
    LET r == iters[id] IN
    (r.pc = "done" /\ r.ret = "mismatch") =>
      /\ r.errAtEnd = <<"hash mismatch for entry", FirstMismatch(r)>>
      /\ \A k \in 1..Len(r.yielded) : r.yielded[k][1] \notin BatchIndices(r)

\* C5 as amended: a record hash mismatch ends the run with the error of the
\* first mismatched index; nothing at or above that index has been emitted,
\* and the entries from start up to it, those of the same batch included,
\* have been.
C5_FirstMismatch ==
  \A id \in Iters :
    LET r == iters[id] IN
    (r.pc = "done" /\ r.ret = "mismatch") =>
      /\ r.errAtEnd = <<"hash mismatch for entry", FirstMismatch(r)>>
      /\ YieldedIdx(r) = Range(r.arg, Max(r.arg, FirstMismatch(r)))

\* Two entries of a batch did not match, and an entry of the same batch below
\* the first of them had been emitted.
C5_Witness ==
  LET r == iters["A"] IN
  /\ r.pc = "done" /\ r.ret = "mismatch"
  /\ \E i, j \in BatchIndices(r) : i < j /\ Mismatched(r, i) /\ Mismatched(r, j)
  /\ \E k \in 1..Len(r.yielded) :
       r.yielded[k][1] \in BatchIndices(r) /\ r.yielded[k][1] < FirstMismatch(r)

\* C6: a run that ended with Err() nil and without the consumer declining has
\* yielded every index of [start, emitEnd).
C6_NeverShortSilently ==
  \A id \in Iters :
    LET r == iters[id] IN
    (r.pc = "done" /\ r.ret # "declined" /\ r.errAtEnd = Nil) =>
      \A j \in r.arg..(EmitEnd(r.arg, treeN) - 1) :
        \E k \in 1..Len(r.yielded) : r.yielded[k][1] = j

\* The caller's context was cancelled while the consumer held the last entry:
\* the run completed, with Err() nil.
C6_Witness ==
  LET r == iters["A"] IN
  /\ r.pc = "done" /\ r.ret = "top" /\ r.errAtEnd = Nil
  /\ r.parentDone
  /\ Len(r.reads) >= 2

\* The run returned before it had yielded all of [start, emitEnd).
EndedEarly(r) ==
  r.pc = "done" /\ YieldedIdx(r) # Range(r.arg, EmitEnd(r.arg, treeN))

\* C7 as stated: when the run ends early because the caller's context was
\* cancelled or because the consumer abandoned the iterator, Err() is non-nil;
\* Err() is nil only if the run completed.
C7_CancelOrAbandon ==
  \A id \in Iters :
    LET r == iters[id] IN
    /\ (EndedEarly(r) /\ (r.ret = "declined" \/ r.parentDone)) => r.errAtEnd # Nil
    /\ (r.pc = "done" /\ r.errAtEnd = Nil) => Completed(r)

\* C7 as amended: when the run ends early because the caller's context was
\* cancelled, Err() is the cancellation error; when the consumer abandons the
\* iterator Err() stays nil; Err() is nil only if the run completed or the
\* consumer abandoned it.
C7_Cancellation ==
  \A id \in Iters :
    LET r == iters[id] IN
    r.pc = "done" =>
      /\ (r.ret \in {"ctx", "ctxEntry", "read", "hashes"} /\ r.ctx.err = Canceled) =>
           r.errAtEnd = Canceled /\ err = Canceled
      /\ (EndedEarly(r) /\ r.parentDone /\ r.ret # "declined") => r.errAtEnd # Nil
      /\ r.ret = "declined" => r.errAtEnd = Nil /\ err = Nil
      /\ r.errAtEnd = Nil => Completed(r) \/ r.ret = "declined"

\* The caller cancelled in the middle of a batch, after an entry was yielded.
C7_Witness ==
  LET r == iters["A"] IN
  /\ r.pc = "done" /\ r.ret = "ctxEntry" /\ r.errAtEnd = Canceled
  /\ Len(r.yielded) >= 1
  /\ r.i < r.base + Len(r.indexes) - 1

\* The entries of a run the consumer has accepted.
Accepts(r) ==
  Len(r.yielded) - (IF r.pc = "yield" \/ (r.pc = "done" /\ r.ret = "declined") THEN 1 ELSE 0)

\* The engine waits for a tile source or hash reader answer, or is about to
\* cut the next entry: no entry is in the consumer's hands.
Waiting == {"ReadTiles", "ReadHashes", "entry"}

\* The timer of a run: none before the iterator is called, then exactly one
\* live timer, of the configured duration, the one armed at the start or at
\* the last accepted entry; none is left when the run has returned, and a run
\* that returned with its timer expired returned the timeout error.
TimerState(r) ==
  /\ r.pc \in {"none", "created"} => r.timers = {} /\ r.ctx.gen = 0
  /\ r.pc \in Running =>
       /\ r.timers = {r.ctx.gen}
       /\ r.ctx.gen = Accepts(r) + 1
       /\ r.ctx.timeout = DefaultTimeout
  /\ r.pc = "done" => r.timers = {} /\ r.ctx.gen = Accepts(r) + 1
  /\ (r.pc = "done" /\ r.ret # "declined" /\ r.ctx.err = DeadlineExceeded) =>
       /\ r.ret \in {"ctx", "ctxEntry", "read", "hashes"}
       /\ r.errAtEnd = DeadlineExceeded /\ err = DeadlineExceeded

\* A step of a run, from r to r2: an accepted entry releases the timer and
\* arms a fresh one derived from the caller's context; no other step of the
\* engine, a skipped entry included, touches the timer; once the timer has
\* expired while the engine waits, no entry is yielded and the run can only
\* return the timeout error.
TimerStep(r, r2) ==
  /\ (r.pc = "yield" /\ r2.pc # "yield" /\ ~(r2.pc = "done" /\ r2.ret = "declined")) =>
       /\ r2.ctx = [gen |-> r.ctx.gen + 1, timeout |-> DefaultTimeout,
                    err |-> IF r.parentDone THEN Canceled ELSE Nil]
       /\ r.ctx.gen \notin r2.timers
  /\ (r.pc \in Waiting /\ r2.pc # "done") =>
       /\ r2.ctx.gen = r.ctx.gen /\ r2.timers = r.timers
       /\ r2.yielded # r.yielded => r2.pc = "yield"
  /\ (r.pc \in Waiting /\ r.ctx.err = DeadlineExceeded /\ r2 # r) =>
       /\ r2.yielded = r.yielded
       /\ r2.pc \in Waiting \cup {"done"}
       /\ r2.ctx.err = DeadlineExceeded
       /\ r2.pc = "done" => r2.errAtEnd = DeadlineExceeded /\ err' = DeadlineExceeded

\* C8: the per-yield timer is started when the iteration begins and restarted
\* each time the consumer accepts an entry, not when an entry below start is
\* skipped; a timer that expires before the next entry is yielded ends the run
\* with the timeout error in Err() and without a further entry.
C8_PerYieldTimer ==
  /\ [](\A id \in Iters : TimerState(iters[id]))
  /\ [][\A id \in Iters : TimerStep(iters[id], iters'[id])]_vars

\* A run from the middle of a tile yielded an entry, and then its timer expired
\* before the next was yielded.
C8_Witness ==
  LET r == iters["A"] IN
  /\ r.pc = "done" /\ r.ret = "ctxEntry" /\ r.errAtEnd = DeadlineExceeded
  /\ r.arg % TileWidth # 0
  /\ Len(r.yielded) >= 1 /\ r.ctx.gen >= 2

\* C9: after both iterators have returned, Err() is the outcome of B's run: the
\* error B's run stored, nil if it stored none.
C9_LatestCall ==
  (iters["A"].pc = "done" /\ iters["B"].pc = "done") => err = iters["B"].ownErr

\* C10: cut is never given an empty input; where the tile's data ends early the
\* run returns an error instead.
C10_CutNeverEmpty ==
  \A id \in Iters :
    LET r == iters[id] IN
    /\ ~r.cutEmpty
    /\ (r.pc = "done" /\ r.ret = "short") =>
         /\ r.errAtEnd = <<"unexpected end of tile data for tile", r.tiles[r.ti].N>>
         /\ r.data = <<>>

\* A tile's data ended before its last entry, after cut had been called for
\* the entries before.
C10_Witness ==
  LET r == iters["A"] IN
  /\ r.pc = "done" /\ r.ret = "short"
  /\ r.ncut >= 1

\* ---------------------------------------------------- claims: PermanentCache

\* The files of the directory are those of full tiles of the configured height.
OnlyFullTiles ==
  \A p \in Paths :
    files[p] # Absent =>
      \E t \in CacheTiles : t.H = TileHeight /\ t.W = 2 ^ TileHeight /\ p = TilePath(t)

\* The call in hand passed all its tiles and data to the SaveTiles below.
Forwarded ==
  last.inner = <<[op |-> "SaveTiles", tiles |-> last.tiles, data |-> last.data]>>

\* C11 as stated: every file of the cache is that of a full tile of height H,
\* and every SaveTiles call forwards its descriptors, the partial ones
\* included, to the SaveTiles of the source below.
C11_AlwaysForwarded ==
  /\ OnlyFullTiles
  /\ last.op = "SaveTiles" => Forwarded

\* C11 as amended: every file of the cache is that of a full tile of height H;
\* a SaveTiles call forwards all its descriptors, the partial ones included,
\* unless it returned at a directory it could not create, and then it
\* forwards nothing.
C11_OnlyFullTilesStored ==
  /\ OnlyFullTiles
  /\ (last.op = "SaveTiles" /\ ~last.stopped) => Forwarded
  /\ (last.op = "SaveTiles" /\ last.stopped) => last.inner = <<>>

\* A call saved a partial tile and then a full one: the full tile's file was
\* written, the partial one's was not, and both were forwarded.
C11_Witness ==
  /\ last.op = "SaveTiles" /\ Len(last.tiles) = 2
  /\ last.tiles[1].H = TileHeight /\ last.tiles[1].W < TileWidth
  /\ last.tiles[2].H = TileHeight /\ last.tiles[2].W = TileWidth
  /\ files[TilePath(last.tiles[1])] = Absent
  /\ files[TilePath(last.tiles[2])] = last.data[2]
  /\ Forwarded

\* C12: a file that exists at a path is left as it is by every later call:
\* SaveTiles does not write to a path that exists, whatever bytes it is given,
\* and ReadTiles writes and deletes nothing.
C12_ImmutableByPath ==
  [][/\ \A p \in Paths : files[p] # Absent => files'[p] = files[p]
     /\ last'.op = "ReadTiles" => files' = files]_vars

\* SaveTiles was called for a full tile whose file held other bytes than the
\* call's.
C12_Witness ==
  /\ last.op = "SaveTiles" /\ Len(last.tiles) = 1
  /\ last.tiles[1].H = TileHeight /\ last.tiles[1].W = TileWidth
  /\ files[TilePath(last.tiles[1])] \in Bytes \ {last.data[1]}

\* ------------------------------------------------------- claims: TileFetcher

\* An attempt that got no response, a 429, a status of 500 or more, or a 200
\* whose body could not be read.
FailedAttempt(resp) ==
  \/ resp = NetErr
  \/ resp.code = 429
  \/ resp.code >= 500
  \/ resp.code = 200 /\ ~resp.body

\* The call returned from errGroup.Wait.
Waited == fetch.returned /\ fetch.pos > Len(fetch.tiles)

\* C13: a tile's request makes at most 5 attempts; after a failed attempt it
\* goes on while fewer than 5 were made, and fails after the 5th; a 200 with a
\* readable body ends it with success; any other status ends it at once with
\* an error; ReadTiles returns an error when a tile's request failed.
C13_FiveAttempts ==
  /\ \A k \in 1..Len(fetch.tiles) :
       LET g == fetch.g[k] IN
       /\ g.j <= 5
       /\ g.pc = "sleep" => g.j < 5 /\ FailedAttempt(g.resp)
       /\ g.pc = "done" =>
            \/ g.res = Nil /\ g.resp.code = 200 /\ g.resp.body
            \/ /\ g.res = <<"unexpected status code", g.resp.code>>
               /\ ~FailedAttempt(g.resp) /\ g.resp.code # 200
            \/ g.res = ErrAttempts /\ g.j = 5 /\ FailedAttempt(g.resp)
            \/ g.res = Canceled /\ g.j < 5 /\ FailedAttempt(g.resp)
  /\ Waited =>
       (fetch.ret = Nil <=> \A k \in 1..Len(fetch.tiles) : fetch.g[k].res = Nil)

\* A tile was fetched at its 5th attempt, after four failed ones the last of
\* which carried a Retry-After, and ReadTiles returned without error.
C13_Witness ==
  /\ Waited /\ fetch.ret = Nil
  /\ \E k \in 1..Len(fetch.tiles) :
       fetch.g[k].j = 5 /\ fetch.g[k].res = Nil /\ fetch.g[k].pause = 3

\* The pause after attempt j that ended in resp: until the instant of a
\* Retry-After that parses (as seconds from now) when resp is a 429 or 5xx that
\* carries one, and 5^(j-1) seconds otherwise.
ExpectedPause(j, resp) ==
  IF (resp.code = 429 \/ resp.code >= 500) /\ resp.header.kind \in {"seconds", "date"}
  THEN resp.header.v
  ELSE 5 ^ (j - 1)

\* A goroutine sleeps between attempt j and j+1 for the expected pause.
SleepsExpected(g) ==
  g.pc = "sleep" =>
    /\ g.j \in 1..4
    /\ g.pause = ExpectedPause(g.j, g.resp)
    /\ g.resp.header.kind \in {"none", "garbage"} => g.pause \in {1, 5, 25, 125}

\* A step of a goroutine, from g to g2, that sleeps a positive pause under a
\* cancelled context: it returns the context's error and makes no attempt.
CancelledSleep(g, g2, done) ==
  (g.pc = "sleep" /\ g.pause > 0 /\ done /\ g2 # g) =>
    g2.pc = "done" /\ g2.res = Canceled /\ g2.j = g.j

\* C14: between attempts j and j+1 the fetcher sleeps 5^(j-1) seconds, or
\* until the Retry-After instant of the most recent attempt when that was a
\* 429 or 5xx with a Retry-After that parses; a Retry-After serves one sleep
\* only; a cancellation during the sleep ends the request with the context's
\* error and without a further attempt.
C14_Backoff ==
  /\ [](\A k \in 1..Len(fetch.tiles) : SleepsExpected(fetch.g[k]))
  /\ [][\A k \in 1..Len(fetch.tiles) :
          CancelledSleep(fetch.g[k], fetch'.g[k], fetch.ctxDone)]_vars

\* A request was cancelled during its third sleep, a default one that followed
\* an attempt without a response.
C14_Witness ==
  \E k \in 1..Len(fetch.tiles) :
    LET g == fetch.g[k] IN
    /\ g.pc = "done" /\ g.res = Canceled
    /\ g.j = 3 /\ g.resp = NetErr /\ g.pause = 25

\* C15: when a descriptor of the batch has another height than the configured
\* one, ReadTiles returns an error, no HTTP request has been or will be made
\* for any descriptor of the batch, and no goroutine of the call is running
\* once it has returned.
C15_RejectedBeforeFetching ==
  (fetch.returned /\ \E k \in 1..Len(fetch.tiles) : fetch.tiles[k].H # TileHeight) =>
    /\ fetch.ret # Nil
    /\ \A k \in 1..Len(fetch.tiles) :
         fetch.g[k].j = 0 /\ fetch.g[k].pc \in {"none", "done"}

\* ------------------------------------------------ claims: batches of Entries

\* The descriptors of all the batches a run requested, in order.
RECURSIVE Flatten(_)
Flatten(batches) ==
  IF batches = <<>> THEN <<>> ELSE Head(batches) \o Flatten(Tail(batches))

\* C16: every batch the engine requests has between 1 and the cap of
\* descriptors, all data tiles of height H; over the successive batches the
\* tile numbers are consecutive from floor(start / 2^H), without overlap or
\* gap; each width is min(2^H, top - tileStart); a partial descriptor is the
\* last of its batch and occurs only when start lies in the trailing partial
\* tile; a completed run has requested the tiles up to top.
C16_Batches ==
  \A id \in Iters :
    LET r == iters[id]
        all == Flatten(r.reads)
        top == EmitEnd(r.arg, treeN)
        first == r.arg \div (2 ^ TileHeight)
    IN /\ \A b \in 1..Len(r.reads) :
            /\ Len(r.reads[b]) \in 1..BatchCap
            /\ \A k \in 1..Len(r.reads[b]) :
                 r.reads[b][k].W < 2 ^ TileHeight =>
                   /\ k = Len(r.reads[b])
                   /\ top = treeN
                   /\ r.arg >= (treeN \div (2 ^ TileHeight)) * (2 ^ TileHeight)
       /\ \A k \in 1..Len(all) :
            /\ all[k].L = -1 /\ all[k].H = TileHeight
            /\ all[k].N = first + k - 1
            /\ all[k].W = Min(2 ^ TileHeight, top - all[k].N * (2 ^ TileHeight))
       /\ (Completed(r) /\ Len(all) > 0) =>
            all[Len(all)].N * (2 ^ TileHeight) + all[Len(all)].W = top

\* A run from the middle of a tile completed after a full batch and another.
C16_Witness ==
  LET r == iters["A"] IN
  /\ Completed(r)
  /\ r.arg % TileWidth # 0
  /\ Len(r.reads) >= 2 /\ Len(r.reads[1]) = BatchCap

\* The entries of the batches a run has passed to SaveTiles.
RECURSIVE SavedEntries(_)
SavedEntries(saves) ==
  IF saves = <<>> THEN 0
  ELSE Len(Flatten(Head(saves).data)) + SavedEntries(Tail(saves))

\* C17: a batch passed to SaveTiles is one the run requested, all of whose
\* entries were cut and matched the authenticated leaf hashes, every tile
\* holding exactly W entries; the batch in hand is not saved before that, and
\* a batch that failed, timed out or was abandoned is never saved.
C17_SavedAuthenticated ==
  \A id \in Iters :
    LET r == iters[id] IN
    /\ \A b \in 1..Len(r.saves) :
         /\ r.saves[b].tiles = r.reads[b]
         /\ \A m \in 1..Len(r.saves[b].tiles) :
              LET t == r.saves[b].tiles[m]
                  d == r.saves[b].data[m]
              IN /\ Len(d) = t.W
                 /\ \A j \in 1..Len(d) :
                      /\ ~Cut(<<d[j]>>).err
                      /\ Cut(<<d[j]>>).rh = AuthenticatedLeafHash(t.N * TileWidth + j - 1)
    /\ r.ncut >= SavedEntries(r.saves)
    /\ r.pc \in Running => Len(r.saves) = Len(r.reads) - 1
    /\ (r.pc = "done" /\ r.ret \in (FailRets \ {"ctx"}) \cup {"declined"}) =>
         Len(r.saves) = Len(r.reads) - 1
    /\ (r.pc = "done" /\ r.ret \in {"ctx", "top", "empty"}) => Len(r.saves) = Len(r.reads)

\* After a batch was saved, the consumer abandoned the run at the last entry
\* of the next batch, which was not saved.
C17_Witness ==
  LET r == iters["A"] IN
  /\ r.pc = "done" /\ r.ret = "declined"
  /\ Len(r.saves) = 1 /\ Len(r.reads) = 2
  /\ r.ti = Len(r.tiles) /\ r.data = <<>>

\* --------------------------------------------------- claims: edgeMemoryCache

\* The slots of the level of t, and whether one of them holds t.
SlotsFor(t) == IF edgeT[t.L] = <<>> THEN <<>> ELSE edgeT[t.L]
Cached(t) == \E i \in 1..Len(SlotsFor(t)) : SlotsFor(t)[i].Tile = t

\* The bytes of the slot that holds t.
CachedBytes(t) ==
  LET i == CHOOSE i \in 1..Len(SlotsFor(t)) : SlotsFor(t)[i].Tile = t
  IN SlotsFor(t)[i].data

\* What ReadTiles is to return and to ask below, for the request in hand.
ReadTilesAnswer ==
  LET NotCached(t) == ~Cached(t)
      missing == SelectSeq(last.tiles, NotCached)
  IN /\ Len(last.inner) <= 1
     /\ missing = <<>> => last.inner = <<>> /\ last.err = Nil
     /\ missing # <<>> => last.inner = <<[op |-> "ReadTiles", tiles |-> missing]>>
     /\ last.err # Nil => last.data = <<>>
     /\ last.err = Nil =>
          /\ Len(last.data) = Len(last.tiles)
          /\ \A k \in 1..Len(last.tiles) :
               last.data[k] = IF Cached(last.tiles[k]) THEN CachedBytes(last.tiles[k])
                              ELSE <<"source bytes", last.tiles[k]>>

\* C18: ReadTiles returns, in input order, the slot's bytes for a descriptor a
\* slot holds and the bytes of the source below for every other; it calls the
\* source below at most once, with the missing descriptors in request order,
\* and not at all when there is none; when that call fails it returns the
\* error and no data; it leaves the slots as they are.
C18_ReadThrough ==
  /\ [](last.op = "ReadTiles" => ReadTilesAnswer)
  /\ [][last'.op = "ReadTiles" => edgeT' = edgeT]_vars

\* A request of a missing descriptor followed by the descriptor a second slot
\* holds was answered.
C18_Witness ==
  /\ last.op = "ReadTiles" /\ last.err = Nil
  /\ \E k \in 1..Len(last.tiles) :
       /\ edgeT[last.tiles[k].L] # <<>>
       /\ edgeT[last.tiles[k].L][2].Tile = last.tiles[k]
       /\ k > 1 /\ ~Cached(last.tiles[1])
  /\ Len(last.inner) = 1

\* What PermanentCache.ReadTiles is to return and to ask below, for the
\* request in hand.
ServedFromDisk ==
  LET OnDisk(t) == files[TilePath(t)] # Absent
      NotOnDisk(t) == ~OnDisk(t)
      missing == SelectSeq(last.tiles, NotOnDisk)
  IN /\ Len(last.inner) <= 1
     /\ missing = <<>> => last.inner = <<>>
     /\ last.inner # <<>> => last.inner = <<[op |-> "ReadTiles", tiles |-> missing]>>
     /\ (last.err = Nil /\ missing # <<>>) => last.inner # <<>>
     /\ last.err = <<"read error", 0>> => last.inner = <<>> /\ last.data = <<>>
     /\ last.err = Nil =>
          \A k \in 1..Len(last.tiles) :
            last.data[k] = IF OnDisk(last.tiles[k]) THEN files[TilePath(last.tiles[k])]
                           ELSE <<"source bytes", last.tiles[k]>>

\* C19: PermanentCache.ReadTiles calls the source below at most once, with the
\* descriptors whose file does not exist, in request order, and not at all
\* when every file exists: a tile that SaveTiles stored is answered from its
\* file; a read error other than not-exist ends the call with an error and
\* without a call below.
C19_MissingOnly ==
  last.op = "ReadTiles" => ServedFromDisk

\* A request of a tile that was saved before and a tile with no file was
\* answered: the first from its file, the second by the source below.
C19_Witness ==
  /\ last.op = "ReadTiles" /\ last.err = Nil /\ Len(last.tiles) = 2
  /\ files[TilePath(last.tiles[1])] \in Bytes
  /\ last.data[1] = files[TilePath(last.tiles[1])]
  /\ files[TilePath(last.tiles[2])] = Absent
  /\ last.inner = <<[op |-> "ReadTiles", tiles |-> <<last.tiles[2]>>]>>

\* C20: at a level where a tile was saved the two slots are never both zero
\* and never hold the same descriptor; a SaveTiles call whose descriptors all
\* occupy slots already changes no slot, neither descriptor nor bytes.
C20_SlotInvariant ==
  /\ [](\A l \in Levels :
          edgeT[l] # <<>> =>
            /\ ~(edgeT[l][1].Tile = ZeroTile /\ edgeT[l][2].Tile = ZeroTile)
            /\ edgeT[l][1].Tile # edgeT[l][2].Tile)
  /\ [][(last'.op = "SaveTiles" /\ \A k \in 1..Len(last'.tiles) : Cached(last'.tiles[k]))
          => edgeT' = edgeT]_vars

\* A descriptor that a second slot held with other bytes was saved again.
C20_Witness ==
  /\ last.op = "SaveTiles" /\ Len(last.tiles) = 1
  /\ edgeT[last.tiles[1].L] # <<>>
  /\ edgeT[last.tiles[1].L][2].Tile = last.tiles[1]
  /\ edgeT[last.tiles[1].L][2].data # last.data[1]
  /\ last.inner = <<[op |-> "SaveTiles", tiles |-> <<>>, data |-> <<>>]>>

\* The descriptors in the slots of level l.
SlotTiles(l) ==
  IF edgeT[l] = <<>> THEN {}
  ELSE {edgeT[l][1].Tile, edgeT[l][2].Tile} \ {ZeroTile}

\* The distinct descriptors SaveTiles was ever given at level l.
Seen(l) == {saved[l][i] : i \in 1..Len(saved[l])}

\* The order (N, W), lexicographic, on the descriptors of one level.
Below(a, b) == a.N < b.N \/ (a.N = b.N /\ a.W < b.W)

\* The descriptors of level l were saved in increasing order.
Ascending(l) ==
  \A i \in 1..Len(saved[l]) - 1 : Below(saved[l][i + 1], saved[l][i])

\* C21 (as stated): once two distinct descriptors were saved at a level, its
\* slots hold the two most recently saved distinct descriptors.
C21_TwoMostRecent ==
  \A l \in Levels :
    Len(saved[l]) >= 2 => SlotTiles(l) = {saved[l][1], saved[l][2]}

\* C21 (amended): once two distinct descriptors were saved at a level, both
\* slots are occupied, and the descriptor saved last is in a slot unless it
\* is below both slots' descriptors in the order (N, W); the slots hold the
\* two most recently saved descriptors when the level's descriptors were
\* saved in increasing order.
C21_RecentUnlessBelow ==
  \A l \in Levels :
    Len(saved[l]) >= 2 =>
      /\ Cardinality(SlotTiles(l)) = 2
      /\ \/ saved[l][1] \in SlotTiles(l)
         \/ \A u \in SlotTiles(l) : Below(saved[l][1], u)
      /\ Ascending(l) => SlotTiles(l) = {saved[l][1], saved[l][2]}

\* The descriptor saved last is below both slots, and no slot holds it.
C21_Witness ==
  /\ last.op = "SaveTiles"
  /\ \E l \in Levels :
       /\ Len(saved[l]) >= 3
       /\ saved[l][1] = last.tiles[Len(last.tiles)]
       /\ saved[l][1] \notin SlotTiles(l)
       /\ \A u \in SlotTiles(l) : Below(saved[l][1], u)

\* The greatest descriptors of S in the order (N, W): all of S when it has
\* at most two, the two greatest otherwise.
Greatest(S) == {t \in S : Cardinality({u \in S : Below(t, u)}) <= 1}

\* C22: the slots of each level hold exactly the greatest descriptors ever
\* saved at it, the one saved or the two greatest in the order (N, W), so a
\* descriptor below both slots is not cached; tileLess never panics.
C22_TwoGreatest ==
  /\ \A l \in Levels : SlotTiles(l) = Greatest(Seen(l))
  /\ last.panic = FALSE

\* Three descriptors were saved at a level; the last one took the place of
\* the least, which no slot holds any more.
C22_Witness ==
  /\ last.op = "SaveTiles"
  /\ \E l \in Levels :
       /\ Len(saved[l]) = 3
       /\ saved[l][1] = last.tiles[Len(last.tiles)]
       /\ saved[l][1] \in SlotTiles(l)
       /\ \E u \in Seen(l) : u \notin SlotTiles(l) /\ Below(u, saved[l][1])

\* ------------------------------------------------- claims: nothing left to emit

\* C23: a run of Entries(tree, start) with start = tree.N requests no batch
\* and yields no entry, and Err() is nil when it has returned (the context
\* being live when it started), whatever the tree size, a multiple of the
\* tile width or not.
C23_NothingToFetch ==
  \A id \in Iters :
    LET r == iters[id] IN
    (r.pc # "none" /\ r.arg = treeN) =>
      /\ r.reads = <<>>
      /\ r.yielded = <<>>
      /\ (r.pc = "done" /\ r.ret # "ctx") => r.errAtEnd = Nil

\* ------------------------------------------------------ claims: partial files

\* C24: a file that a failed write left with part of a full tile's bytes is
\* written again: a SaveTiles call that is given the tile with its bytes, and
\* does not stop at a directory it cannot create, leaves the bytes of a tile
\* at the path.
C24_PartialRewritten ==
  [][\A k \in 1..Len(last'.tiles) :
       LET t == last'.tiles[k] IN
       (/\ last'.op = "SaveTiles" /\ ~last'.stopped
        /\ t.H = TileHeight /\ t.W = TileWidth
        /\ files[TilePath(t)] = Truncated)
         => files'[TilePath(t)] \in Bytes]_vars

====
